---- MODULE Spec2Model ----
(***************************************************************************)
(* Fire-Emergency-RAG-System: the resilient orchestration layer.           *)
(*                                                                         *)
(*   - ServiceClient (src/shared/http_client.py): per-service circuit      *)
(*     breaker, bounded retries with exponential backoff.                  *)
(*   - EmergencyService (src/backend/services/emergency_service.py):       *)
(*     validation, cache read/write with a disable latch, knowledge        *)
(*     aggregation, generation call, fallback plan.                        *)
(*                                                                         *)
(* Both run on one asyncio event loop: the code between two awaits is one  *)
(* atomic step, and every await of a network call is a step boundary.      *)
(***************************************************************************)
EXTENDS Integers, Sequences, FiniteSets, TLC

\* ------------------------------------------------------------------------
\* Bounds and parameters
\* ------------------------------------------------------------------------
\* concurrent callers of the one shared ServiceClient
NumCallers == 2
\* ServiceClient(max_retries=...): retries after the first attempt
max_retries == 1
\* ServiceClient(retry_delay=...), in clock ticks
retry_delay == 1
\* ServiceClient(circuit_breaker_threshold=...)
circuit_breaker_threshold == 2
\* ServiceClient(circuit_breaker_timeout=...), in clock ticks
circuit_breaker_timeout == 2
\* longest item list of a valid request handled one at a time
MaxItems == 2
\* longest item list of a valid request when tasks run concurrently
ConcMaxItems == 1
\* longest step list in a plan payload delivered by the cache or the generation service
MaxSteps == 2
\* most lines of a generated text made up from the line menu
ParseMaxLines == 2

VARIABLES
    circuit_breakers,   \* ServiceClient.circuit_breakers: service -> record
    call,               \* per caller: the call_service invocation in progress
    consec_failures,    \* observer: failed invocations of S since the last one that returned
    probe,              \* observer: the caller whose call moved S from open to half-open
    last_outcome,       \* observer: how the most recently finished invocation ended
    cache_enabled,      \* EmergencyService.cache_enabled
    req,                \* per task: the generate_rescue_plan invocation in progress
    cache_failed,       \* observer: some cache read or write has ended in an error
    raw,                \* two request bodies as posted (objects with their field order)
    key,                \* the cache key computed for each of them
    hash_seed,          \* the interpreter's string hash seed, drawn when the process starts
    parse,              \* the _parse_rescue_plan_response invocation in progress
    synth,              \* observer: the plans of two _create_fallback_rescue_plan calls
    status_streak       \* observer: consecutive invocations answered with error statuses only

clientVars == <<circuit_breakers, call, consec_failures, probe, last_outcome>>

coordVars == <<cache_enabled, req, cache_failed>>

keyVars == <<raw, key>>

hostVars == <<hash_seed, parse, synth>>

obsVars == <<status_streak>>

vars == <<circuit_breakers, call, consec_failures, probe, last_outcome, cache_enabled, req,
         cache_failed, raw, key, hash_seed, parse, synth, status_streak>>

\* ------------------------------------------------------------------------
\* ServiceClient (src/shared/http_client.py)
\* ------------------------------------------------------------------------
Callers == 1..NumCallers

\* names registered in ServiceRegistry.SERVICES that the callers address
Services == {"knowledge_graph"}

\* a name ServiceRegistry.get_service_url rejects with ValueError
Unregistered == {"cache"}

NoTime == -1
NoCaller == 0
None == [type |-> "None", msg |-> ""]

\* key missing from the circuit_breakers dict
NoBreaker == [state |-> "absent", failure_count |-> 0, since_failure |-> NoTime]

\* the dict literal of _record_success / _record_failure
NewBreaker == [state |-> "closed", failure_count |-> 0, since_failure |-> NoTime]

Min(a, b) == IF a < b THEN a ELSE b

Reverse(s) == [i \in 1..Len(s) |-> s[Len(s) + 1 - i]]

RECURSIVE Pow2(_)
Pow2(n) == IF n = 0 THEN 1 ELSE 2 * Pow2(n - 1)

\* since_failure holds datetime.utcnow() - last_failure_time; the only test
\* made on it is "> circuit_breaker_timeout", so it saturates just above.
SinceCap == circuit_breaker_timeout + 1

\* the breaker check without the cool-down test: an open breaker stays open
_is_circuit_breaker_open_for_good(cb, s) ==
    IF cb[s].state = "open" THEN [ret |-> TRUE, cb |-> cb] ELSE [ret |-> FALSE, cb |-> cb]

\* the breaker check restarting the cool-down whenever it rejects a call
_is_circuit_breaker_open_refreshing(cb, s) ==
    IF cb[s].state = "absent" THEN [ret |-> FALSE, cb |-> cb]
    ELSE IF cb[s].state = "open"
         THEN IF cb[s].since_failure > circuit_breaker_timeout
              THEN [ret |-> FALSE,
                    cb  |-> [cb EXCEPT ![s].state = "half-open",
                                       ![s].failure_count = 0]]
              ELSE [ret |-> TRUE, cb |-> [cb EXCEPT ![s].since_failure = 0]]
         ELSE [ret |-> FALSE, cb |-> cb]

\* _is_circuit_breaker_open: returns the verdict and the (possibly mutated) table
_is_circuit_breaker_open(cb, s) ==
    IF cb[s].state = "absent" THEN [ret |-> FALSE, cb |-> cb]
    ELSE IF cb[s].state = "open"
         THEN IF cb[s].since_failure > circuit_breaker_timeout
              THEN [ret |-> FALSE,
                    cb  |-> [cb EXCEPT ![s].state = "half-open",
                                       ![s].failure_count = 0]]
              ELSE [ret |-> TRUE, cb |-> cb]
         ELSE [ret |-> FALSE, cb |-> cb]

\* _record_success without the reset of the counter
_record_success_keeping_count(cb, s) ==
    LET b == IF cb[s].state = "absent" THEN NewBreaker ELSE cb[s]
    IN  [cb EXCEPT ![s] = [b EXCEPT !.state = IF b.state = "half-open" THEN "closed" ELSE b.state]]

_record_success(cb, s) ==
    LET b == IF cb[s].state = "absent" THEN NewBreaker ELSE cb[s]
    IN  [cb EXCEPT ![s] = [b EXCEPT !.state = IF b.state = "half-open" THEN "closed" ELSE b.state,
                                    !.failure_count = 0]]

_record_failure(cb, s) ==
    LET b  == IF cb[s].state = "absent" THEN NewBreaker ELSE cb[s]
        fc == b.failure_count + 1
    IN  [cb EXCEPT ![s] = [state |-> IF fc >= circuit_breaker_threshold THEN "open" ELSE b.state,
                           failure_count |-> fc,
                           since_failure |-> 0]]

\* what the awaited self.client.request(...) can do
AnsweredFailures == {"status_error", "bad_body"}
Outcomes == {"ok", "timeout", "connect_error", "http_error"} \cup AnsweredFailures

\* the except clauses of call_service
ExceptionOf(outcome) ==
    CASE outcome = "timeout"       -> [type |-> "ServiceTimeoutError", msg |-> "timeout"]
      [] outcome = "connect_error" -> [type |-> "ServiceUnavailableError", msg |-> "connect_failed"]
      [] outcome = "http_error"    -> [type |-> "ServiceCommunicationError", msg |-> "http_error"]
      [] outcome = "status_error"  -> [type |-> "ServiceCommunicationError", msg |-> "error_status"]
      [] outcome = "bad_body"      -> [type |-> "ServiceCommunicationError", msg |-> "unknown_error"]

CircuitOpen == [type |-> "ServiceUnavailableError", msg |-> "circuit_open"]
ConfigError == [type |-> "ServiceCommunicationError", msg |-> "config_error"]
Response == [type |-> "response", msg |-> ""]

IdleCall == [pc |-> "idle", svc |-> "", attempt |-> 0, wait |-> 0, last_exception |-> None]

\* what an invocation handed to its caller: a response, or the exception raised
Finished(c, s, r) == [caller |-> c, svc |-> s, result |-> r]

\* call_service, lines 98-131: breaker check, URL lookup, first request issued
CallService(c, s) ==
    /\ call[c].pc = "idle"
    /\ s \in Services
    /\ LET r == _is_circuit_breaker_open(circuit_breakers, s)
       IN  /\ circuit_breakers' = r.cb
           /\ IF r.ret
              THEN /\ call' = [call EXCEPT ![c] = IdleCall]
                   /\ last_outcome' = Finished(c, s, CircuitOpen)
                   /\ probe' = probe
              ELSE /\ call' = [call EXCEPT ![c] = [IdleCall EXCEPT !.pc = "awaiting", !.svc = s]]
                   /\ last_outcome' = last_outcome
                   /\ probe' = IF circuit_breakers[s].state = "open"
                               THEN [probe EXCEPT ![s] = c] ELSE probe
    /\ UNCHANGED consec_failures

\* call_service, lines 98-106, for a name the registry does not know
CallUnregistered(c, s) ==
    /\ call[c].pc = "idle"
    /\ s \in Unregistered
    /\ call' = [call EXCEPT ![c] = IdleCall]
    /\ last_outcome' = Finished(c, s, ConfigError)
    /\ UNCHANGED <<circuit_breakers, consec_failures, probe>>

\* call_service, lines 132-174: the awaited request completes with `outcome`
Respond(c, outcome) ==
    /\ call[c].pc = "awaiting"
    /\ LET s   == call[c].svc
           cb1 == IF outcome \in {"ok"} \cup AnsweredFailures
                  THEN _record_success(circuit_breakers, s)
                  ELSE circuit_breakers
       IN  IF outcome = "ok"
           THEN /\ circuit_breakers' = cb1
                /\ call' = [call EXCEPT ![c] = IdleCall]
                /\ last_outcome' = Finished(c, s, Response)
                /\ consec_failures' = [consec_failures EXCEPT ![s] = 0]
                /\ probe' = [probe EXCEPT ![s] = IF @ = c THEN NoCaller ELSE @]
           ELSE IF call[c].attempt < max_retries
                THEN /\ circuit_breakers' = cb1
                     /\ call' = [call EXCEPT ![c].pc = "sleeping",
                                             ![c].wait = retry_delay * Pow2(call[c].attempt),
                                             ![c].last_exception = ExceptionOf(outcome)]
                     /\ UNCHANGED <<consec_failures, probe, last_outcome>>
                ELSE /\ circuit_breakers' = _record_failure(cb1, s)
                     /\ call' = [call EXCEPT ![c] = IdleCall]
                     /\ last_outcome' = Finished(c, s, ExceptionOf(outcome))
                     /\ consec_failures' = [consec_failures EXCEPT
                                               ![s] = Min(@ + 1, circuit_breaker_threshold)]
                     /\ probe' = [probe EXCEPT ![s] = IF @ = c THEN NoCaller ELSE @]

\* the next attempt issued without waiting for the end of the sleep
RetryWithoutWaiting(c) ==
    /\ call[c].pc = "sleeping"
    /\ call' = [call EXCEPT ![c].pc = "awaiting", ![c].attempt = @ + 1]
    /\ UNCHANGED <<circuit_breakers, consec_failures, probe, last_outcome>>

\* call_service, lines 164-165 then 120-131: the backoff sleep ends, next attempt issued
Retry(c) ==
    /\ call[c].pc = "sleeping"
    /\ call[c].wait = 0
    /\ call' = [call EXCEPT ![c].pc = "awaiting", ![c].attempt = @ + 1]
    /\ UNCHANGED <<circuit_breakers, consec_failures, probe, last_outcome>>

\* one clock tick: datetime.utcnow() advances, pending sleeps run down
Tick ==
    /\ circuit_breakers' = [s \in Services |->
           IF circuit_breakers[s].since_failure = NoTime THEN circuit_breakers[s]
           ELSE [circuit_breakers[s] EXCEPT !.since_failure = Min(@ + 1, SinceCap)]]
    /\ call' = [c \in Callers |->
           IF call[c].pc = "sleeping" /\ call[c].wait > 0
           THEN [call[c] EXCEPT !.wait = @ - 1] ELSE call[c]]
    /\ UNCHANGED <<consec_failures, probe, last_outcome>>

\* the observer of a single caller's invocations: `clean` while every attempt
\* of the invocation in progress was answered with an error status, `count`
\* the invocations in a row that ended with all their attempts answered so
StreakIdle == status_streak = [count |-> [s \in Services |-> 0], clean |-> TRUE]

ObserveRespond(c, outcome) ==
    LET s == call[c].svc
    IN  status_streak' =
            IF outcome # "ok" /\ call[c].attempt < max_retries
            THEN [status_streak EXCEPT !.clean = @ /\ outcome = "status_error"]
            ELSE [count |-> [status_streak.count EXCEPT ![s] =
                                IF status_streak.clean /\ outcome = "status_error"
                                THEN Min(@ + 1, circuit_breaker_threshold) ELSE 0],
                  clean |-> TRUE]

\* ------------------------------------------------------------------------
\* Data model (src/shared/models.py)
\* ------------------------------------------------------------------------
\* Strings that the code inspects are held as sequences of characters;
\* Chinese literals are written as ASCII glosses.
Blank == " "

RECURSIVE lstrip(_)
lstrip(s) == IF s # <<>> /\ Head(s) = Blank THEN lstrip(Tail(s)) ELSE s

RECURSIVE rstrip(_)
rstrip(s) == IF s # <<>> /\ s[Len(s)] = Blank THEN rstrip(SubSeq(s, 1, Len(s) - 1)) ELSE s

\* str.strip()
strip(s) == rstrip(lstrip(s))

\* Optional[int] holding None
NoneInt == -1000

\* PriorityLevel: LOW "低", MEDIUM "中", HIGH "高", URGENT "紧急"
PriorityLevel == {"LOW", "MEDIUM", "HIGH", "URGENT"}

\* urgency_level is a free string; glosses of "紧急", "非常紧急", "低", "一般", "中"
Urgent == "urgent"
VeryUrgent == "very_urgent"
Low == "low"
General == "general"
Medium == "medium"

WoodChair  == [name |-> <<"c">>, material |-> "wood",  quantity |-> 1, location |-> <<"r">>]
MetalShelf == [name |-> <<"s">>, material |-> "metal", quantity |-> 2, location |-> <<"h">>]
ItemMenu == {WoodChair, MetalShelf}

HomeEnv == [type |-> "indoor", area |-> "residential", ventilation |-> "good",
            exits |-> 2, occupancy |-> NoneInt]

SeqsUpTo(S, n) == UNION {[1..k -> S] : k \in 0..n}

MkRequest(items, env, urgency) ==
    [items |-> items, environment |-> env, additional_info |-> "", urgency_level |-> urgency]

\* requests that pass _validate_request, with at most n items
ValidRequests(n) ==
    {MkRequest(its, HomeEnv, u) : its \in SeqsUpTo(ItemMenu, n) \ {<<>>}, u \in {Urgent, Medium}}

\* the item-count limit of _validate_request
MaxItemCount == 50

\* the requests that concurrent tasks are given
ConcRequests(n) ==
    {MkRequest(its, HomeEnv, Urgent) : its \in SeqsUpTo({WoodChair}, n) \ {<<>>}}
        \cup {MkRequest(<<WoodChair>>, [HomeEnv EXCEPT !.exits = 0], Urgent)}

\* requests with one defect each
InvalidRequests ==
    {MkRequest(<<>>, HomeEnv, Urgent),
     MkRequest([i \in 1..(MaxItemCount + 1) |-> WoodChair], HomeEnv, Urgent),
     MkRequest(<<[WoodChair EXCEPT !.name = <<>>]>>, HomeEnv, Urgent),
     MkRequest(<<WoodChair, [MetalShelf EXCEPT !.name = <<Blank, Blank>>]>>, HomeEnv, Urgent),
     MkRequest(<<[WoodChair EXCEPT !.quantity = 0]>>, HomeEnv, Urgent),
     MkRequest(<<[WoodChair EXCEPT !.quantity = -1]>>, HomeEnv, Medium),
     MkRequest(<<[WoodChair EXCEPT !.location = <<Blank>>]>>, HomeEnv, Urgent),
     MkRequest(<<WoodChair>>, [HomeEnv EXCEPT !.exits = 0], Urgent),
     MkRequest(<<WoodChair>>, [HomeEnv EXCEPT !.occupancy = -1], Urgent)}

\* RescueStep field constraints
RescueStepValid(st) ==
    /\ st.step_number >= 1
    /\ strip(st.description) # <<>>
    /\ st.estimated_time = NoneInt \/ st.estimated_time \in 1..1440

\* validate_steps without the check of the numbering
validate_steps_nonempty(v) == v # <<>>

\* RescuePlan.validate_steps
validate_steps(v) ==
    /\ v # <<>>
    /\ [i \in 1..Len(v) |-> v[i].step_number] = [i \in 1..Len(v) |-> i]

\* RescuePlan(**data): TRUE when construction succeeds
RescuePlanValid(d) ==
    /\ strip(d.title) # <<>>
    /\ d.priority \in PriorityLevel
    /\ Len(d.steps) >= 1
    /\ \A i \in 1..Len(d.steps) : RescueStepValid(d.steps[i])
    /\ validate_steps(d.steps)
    /\ d.estimated_duration \in 1..1440

\* ------------------------------------------------------------------------
\* EmergencyService (src/backend/services/emergency_service.py)
\* ------------------------------------------------------------------------
\* the generate_rescue_plan tasks on the one EmergencyService instance: the first
\* serves requests alone, or both serve requests concurrently
Tasks == {1, 2}

\* the per-item checks with "quantity < 0" in place of "quantity <= 0"
ItemErrorAllowingZero(item) ==
    IF strip(item.name) = <<>> THEN "blank_name"
    ELSE IF item.quantity < 0 THEN "bad_quantity"
    ELSE IF strip(item.location) = <<>> THEN "blank_location"
    ELSE "ok"

\* _validate_request, lines 388-396: the checks made on one item
ItemError(item) ==
    IF strip(item.name) = <<>> THEN "blank_name"
    ELSE IF item.quantity <= 0 THEN "bad_quantity"
    ELSE IF strip(item.location) = <<>> THEN "blank_location"
    ELSE "ok"

\* _validate_request: "ok", or the reason of the ValidationError raised
_validate_request(request) ==
    IF request.items = <<>> THEN "no_items"
    ELSE IF Len(request.items) > MaxItemCount THEN "too_many_items"
    ELSE IF \E i \in 1..Len(request.items) : ItemError(request.items[i]) # "ok"
         THEN LET first == CHOOSE i \in 1..Len(request.items) :
                              /\ ItemError(request.items[i]) # "ok"
                              /\ \A j \in 1..(i - 1) : ItemError(request.items[j]) = "ok"
              IN  ItemError(request.items[first])
    ELSE IF request.environment.exits <= 0 THEN "no_exits"
    ELSE IF request.environment.occupancy # NoneInt /\ request.environment.occupancy < 0
         THEN "negative_occupancy"
    ELSE "ok"

RECURSIVE SumTimes(_)
SumTimes(steps) ==
    IF steps = <<>> THEN 0
    ELSE (IF Head(steps).estimated_time = NoneInt THEN 0 ELSE Head(steps).estimated_time)
         + SumTimes(Tail(steps))

SeqToSet(s) == {s[i] : i \in 1..Len(s)}

\* the values of the string hash seed that are told apart
HashSeeds == {"seed_a", "seed_b"}

RECURSIVE SetToSeq(_)
SetToSeq(S) == IF S = {} THEN <<>>
               ELSE LET x == CHOOSE y \in S : TRUE IN <<x>> \o SetToSeq(S \ {x})

\* list(set(xs)): the distinct elements of xs in the iteration order of a set
\* of strings, which is a function of the elements and of the hash seed
list_set(xs) ==
    IF hash_seed = "seed_a" THEN SetToSeq(SeqToSet(xs)) ELSE Reverse(SetToSeq(SeqToSet(xs)))

\* xs.extend(step.field) over all steps
RECURSIVE Extend(_, _)
Extend(steps, field) ==
    IF steps = <<>> THEN <<>> ELSE Head(steps)[field] \o Extend(Tail(steps), field)

\* the four hard-coded steps of _create_fallback_rescue_plan
FallbackSteps ==
    << [step_number |-> 1, description |-> <<"alert_and_evacuate">>,
        equipment |-> <<"phone_or_radio", "emergency_light", "megaphone", "smoke_mask", "exit_signs">>,
        warnings  |-> <<"evacuate_all", "stay_calm", "no_elevator", "stay_low">>,
        estimated_time |-> 5],
       [step_number |-> 2, description |-> <<"contain_the_fire">>,
        equipment |-> <<"powder_extinguisher", "co2_extinguisher", "fire_hose", "fire_blanket",
                        "protective_suit", "fire_axe">>,
        warnings  |-> <<"right_extinguisher", "mind_the_wind", "keep_distance", "avoid_smoke">>,
        estimated_time |-> 10],
       [step_number |-> 3, description |-> <<"evacuate_and_account">>,
        equipment |-> <<"emergency_lamp", "radio", "first_aid_kit", "cordon_tape", "roster",
                        "loudspeaker">>,
        warnings  |-> <<"count_people", "report_missing", "do_not_return", "first_aid">>,
        estimated_time |-> 5],
       [step_number |-> 4, description |-> <<"post_incident_check">>,
        equipment |-> <<"thermal_imager", "cleanup_tools", "warning_signs", "lighting", "camera",
                        "detectors">>,
        warnings  |-> <<"wait_for_clearance", "no_reignition", "structure_stability", "preserve_scene">>,
        estimated_time |-> 15] >>

FallbackPriority(urgency_level) ==
    IF urgency_level \in {Urgent, VeryUrgent} THEN "URGENT"
    ELSE IF urgency_level \in {Low, General} THEN "LOW"
    ELSE "MEDIUM"

\* the fallback plan with its steps numbered from 0
_create_fallback_rescue_plan_zero_based(request) ==
    [title |-> <<"fire_rescue_plan", Blank, "-", Blank, request.environment.area>>,
     priority |-> FallbackPriority(request.urgency_level),
     steps |-> [i \in 1..Len(FallbackSteps) |-> [FallbackSteps[i] EXCEPT !.step_number = i - 1]],
     equipment_list |-> list_set(Extend(FallbackSteps, "equipment")),
     warnings |-> list_set(Extend(FallbackSteps, "warnings")),
     estimated_duration |-> SumTimes(FallbackSteps)]

\* _create_fallback_rescue_plan: the arguments handed to RescuePlan(...)
_create_fallback_rescue_plan(request) ==
    [title |-> <<"fire_rescue_plan", Blank, "-", Blank, request.environment.area>>,
     priority |-> FallbackPriority(request.urgency_level),
     steps |-> FallbackSteps,
     equipment_list |-> list_set(Extend(FallbackSteps, "equipment")),
     warnings |-> list_set(Extend(FallbackSteps, "warnings")),
     estimated_duration |-> SumTimes(FallbackSteps)]

\* plan payloads that the cache or the generation service may deliver as "data"
PayloadStep(n) == [step_number |-> n, description |-> <<"d">>, equipment |-> <<>>,
                   warnings |-> <<>>, estimated_time |-> 5]

Payload(title, ns, duration) ==
    [title |-> title, priority |-> "HIGH", steps |-> [i \in 1..Len(ns) |-> PayloadStep(ns[i])],
     equipment_list |-> <<>>, warnings |-> <<>>, estimated_duration |-> duration]

PlanPayloads ==
    {Payload(<<"t">>, ns, 10) : ns \in SeqsUpTo(0..MaxSteps, MaxSteps)}
        \cup {Payload(<<"t">>, <<1>>, 0), Payload(<<Blank>>, <<1>>, 10)}

NoData == [title |-> <<>>, priority |-> "", steps |-> <<>>, equipment_list |-> <<>>,
           warnings |-> <<>>, estimated_duration |-> 0]

\* what the awaited _call_service can do: raise one of its three exceptions,
\* or return the decoded JSON body
Raises == {[kind |-> "raise", exc |-> e] : e \in {"TimeoutError", "ExternalServiceError", "ServiceError"}}

\* bodies carrying a plan: a non-dict, or a dict with success and data (NoData: key missing or null)
PlanReplies ==
    Raises \cup {[kind |-> "not_dict"]}
           \cup {[kind |-> "dict", success |-> TRUE, data |-> d] : d \in PlanPayloads \cup {NoData}}
           \cup {[kind |-> "dict", success |-> FALSE, data |-> d] :
                    d \in {NoData, Payload(<<"t">>, <<1>>, 10)}}

\* answers to the cache write, whose body is not looked at
SetReplies == Raises \cup {[kind |-> "not_dict"], [kind |-> "dict"]}

\* bodies of a knowledge or retrieval lookup, by what the merge code makes of them:
\* "ok" success with usable data, "unsuccessful" success false or absent,
\* "malformed" a non-dict body, success without data, or data of the wrong type
LookupReplies == Raises \cup {[kind |-> b] : b \in {"ok", "unsuccessful", "malformed"}}

\* KnowledgeContext() with its defaults
EmptyContext == [material_knowledge |-> {}, environment_knowledge |-> FALSE,
                 rescue_procedures |-> FALSE, rag_context |-> <<>>]

RECURSIVE OkIndices(_, _)
OkIndices(res, i) ==
    IF i > Len(res) THEN <<>>
    ELSE (IF res[i] = "ok" THEN <<i>> ELSE <<>>) \o OkIndices(res, i + 1)

\* the except branch letting the exception through
GatherExceptReraise == [kind |-> "raised", ctx |-> EmptyContext]

\* _gather_knowledge_context, lines 375-378: the except branch around awaits and merge
GatherExcept == [kind |-> "context", ctx |-> EmptyContext]

\* _gather_knowledge_context, lines 339-373: merge of the collected results
MergeContext(request, mat, env, proc, rag) ==
    IF \/ \E i \in 1..Len(mat) : mat[i] = "malformed"
       \/ env = "malformed" \/ proc = "malformed"
       \/ \E i \in 1..Len(rag) : rag[i] = "malformed"
    THEN GatherExcept
    ELSE [kind |-> "context",
          ctx |-> [material_knowledge |->
                       {request.items[i].material : i \in {j \in 1..Len(mat) : mat[j] = "ok"}},
                   environment_knowledge |-> (env = "ok"),
                   rescue_procedures |-> (proc = "ok"),
                   rag_context |-> OkIndices(rag, 1)]]

NoRequest == MkRequest(<<>>, HomeEnv, "")
NoResult == [kind |-> "none"]

IdleTask == [pc |-> "idle", request |-> NoRequest, mat |-> <<>>, env |-> "none",
             proc |-> "none", rag |-> <<>>, ctx |-> EmptyContext, plan |-> NoData,
             result |-> NoResult, gen |-> "none"]

\* generate_rescue_plan leaves by raising
RaisedResult(exc, reason) == [kind |-> "raised", exc |-> exc, reason |-> reason]

\* generate_rescue_plan leaves by returning RescuePlan(**data)
PlanResult(data, source) ==
    IF RescuePlanValid(data) THEN [kind |-> "plan", plan |-> data, source |-> source]
    ELSE RaisedResult("pydantic.ValidationError", source)

Done(t, result) == [IdleTask EXCEPT !.pc = "done", !.request = t.request, !.gen = t.gen,
                                    !.result = result]

\* generate_rescue_plan, lines 448-453
Fallback(t) == Done(t, PlanResult(_create_fallback_rescue_plan(t.request), "fallback"))

\* _gather_knowledge_context, lines 293-334: material lookups issued
BeginGather(t) ==
    [t EXCEPT !.pc = "materials", !.mat = [i \in 1..Len(t.request.items) |-> "direct"]]

\* generate_rescue_plan, lines 420-433: gather returned or raised; generation call issued
AfterGather(t, g) ==
    IF g.kind = "context"
    THEN [t EXCEPT !.pc = "generate", !.ctx = g.ctx, !.mat = <<>>, !.env = "none",
                   !.proc = "none", !.rag = <<>>]
    ELSE Fallback(t)

\* _get_cached_result whose except branch leaves cache_enabled alone
_get_cached_result_no_latch(reply) ==
    IF reply.kind = "raise" \/ reply.kind = "not_dict"
    THEN [hit |-> FALSE, data |-> NoData, error |-> FALSE]
    ELSE IF reply.success /\ reply.data # NoData
         THEN IF RescuePlanValid(reply.data)
              THEN [hit |-> TRUE, data |-> reply.data, error |-> FALSE]
              ELSE [hit |-> FALSE, data |-> NoData, error |-> FALSE]
         ELSE [hit |-> FALSE, data |-> NoData, error |-> FALSE]

\* _get_cached_result, lines 263-270: the cache answered `reply`
_get_cached_result(reply) ==
    IF reply.kind = "raise" \/ reply.kind = "not_dict"
    THEN [hit |-> FALSE, data |-> NoData, error |-> TRUE]
    ELSE IF reply.success /\ reply.data # NoData
         THEN IF RescuePlanValid(reply.data)
              THEN [hit |-> TRUE, data |-> reply.data, error |-> FALSE]
              ELSE [hit |-> FALSE, data |-> NoData, error |-> TRUE]
         ELSE [hit |-> FALSE, data |-> NoData, error |-> FALSE]

\* a cache read that ended in an error: the call raised, or the body could not be
\* used (not a dict, or a stored value that is not a RescuePlan)
CacheReadError(reply) ==
    \/ reply.kind \in {"raise", "not_dict"}
    \/ reply.kind = "dict" /\ reply.success /\ reply.data # NoData /\ ~RescuePlanValid(reply.data)

\* a generation reply that is no plan: the call raised, answered success=false,
\* or carried data that is not a valid plan
GenerationFailure(reply) ==
    \/ reply.kind \in {"raise", "not_dict"}
    \/ reply.kind = "dict" /\ (~reply.success \/ reply.data = NoData \/ ~RescuePlanValid(reply.data))

\* the acceptance test without the check of the success flag
GenerationAcceptedIgnoringSuccess(reply) ==
    /\ reply.kind = "dict"
    /\ reply.data # NoData
    /\ RescuePlanValid(reply.data)

\* generate_rescue_plan, lines 433-440: TRUE when the reply yields a RescuePlan
GenerationAccepted(reply) ==
    /\ reply.kind = "dict"
    /\ reply.success
    /\ reply.data # NoData
    /\ RescuePlanValid(reply.data)

\* generate_rescue_plan, lines 404-416 with _get_cached_result lines 258-264:
\* validation, cache key, cache read issued (or skipped, then lookups issued)
StartRequest(r, q) ==
    /\ req[r].pc \in {"idle", "done"}
    /\ LET t == [IdleTask EXCEPT !.request = q]
           v == _validate_request(q)
       IN  req' = [req EXCEPT ![r] =
                      IF v # "ok" THEN Done(t, RaisedResult("ValidationError", v))
                      ELSE IF cache_enabled THEN [t EXCEPT !.pc = "cache_get"]
                      ELSE BeginGather(t)]
    /\ UNCHANGED <<cache_enabled, cache_failed>>

\* the cache read completing under a single-flight rule: on a miss, a request whose
\* key another request is already working on subscribes to that one instead of
\* starting its own lookups
CacheGetRespondSingleFlight(r, reply) ==
    /\ req[r].pc = "cache_get"
    /\ LET c == _get_cached_result(reply)
           led == \E o \in Tasks \ {r} :
                      /\ req[o].pc \notin {"idle", "cache_get", "done"}
                      /\ req[o].request = req[r].request
       IN  /\ cache_enabled' = (cache_enabled /\ ~c.error)
           /\ cache_failed' = (cache_failed \/ CacheReadError(reply))
           /\ req' = [req EXCEPT ![r] =
                         IF c.hit THEN Done(req[r], PlanResult(c.data, "cache"))
                         ELSE IF led THEN [req[r] EXCEPT !.gen = "shared"]
                         ELSE BeginGather(req[r])]

\* the cache read completing with its answer thrown away: lookups always follow
CacheGetRespondIgnoringHit(r, reply) ==
    /\ req[r].pc = "cache_get"
    /\ LET c == _get_cached_result(reply)
       IN  /\ cache_enabled' = (cache_enabled /\ ~c.error)
           /\ cache_failed' = (cache_failed \/ CacheReadError(reply))
           /\ req' = [req EXCEPT ![r] = BeginGather(req[r])]

\* generate_rescue_plan, lines 413-420: the cache read completes
CacheGetRespond(r, reply) ==
    /\ req[r].pc = "cache_get"
    /\ LET c == _get_cached_result(reply)
       IN  /\ cache_enabled' = (cache_enabled /\ ~c.error)
           /\ cache_failed' = (cache_failed \/ CacheReadError(reply))
           /\ req' = [req EXCEPT ![r] =
                         IF c.hit THEN Done(req[r], PlanResult(c.data, "cache"))
                         ELSE BeginGather(req[r])]

AllDone(res) == \A i \in 1..Len(res) : res[i] \notin {"direct", "search", "pending"}

\* fetch_material, lines 297-306, and the join of line 334 followed by line 335
MaterialRespond(r, i, reply) ==
    /\ req[r].pc = "materials"
    /\ i \in 1..Len(req[r].mat)
    /\ req[r].mat[i] \in {"direct", "search"}
    /\ LET now == IF reply.kind = "raise"
                  THEN (IF req[r].mat[i] = "direct" THEN "search" ELSE "unsuccessful")
                  ELSE reply.kind
           mat == [req[r].mat EXCEPT ![i] = now]
       IN  req' = [req EXCEPT ![r].mat = mat,
                              ![r].pc = IF AllDone(mat) THEN "environment" ELSE "materials"]
    /\ UNCHANGED <<cache_enabled, cache_failed>>

\* fetch_environment, lines 311-317, then line 336: procedures lookup issued
EnvironmentRespond(r, reply) ==
    /\ req[r].pc = "environment"
    /\ req' = [req EXCEPT ![r].env = IF reply.kind = "raise" THEN "unsuccessful" ELSE reply.kind,
                          ![r].pc = "procedures"]
    /\ UNCHANGED <<cache_enabled, cache_failed>>

\* line 336: the bare procedures call completes; then line 337, retrieval searches issued
ProceduresRespond(r, reply) ==
    /\ req[r].pc = "procedures"
    /\ req' = [req EXCEPT ![r] =
                  IF reply.kind = "raise" THEN AfterGather(req[r], GatherExcept)
                  ELSE [req[r] EXCEPT !.proc = reply.kind, !.pc = "rag",
                                      !.rag = [i \in 1..Len(req[r].request.items) |-> "pending"]]]
    /\ UNCHANGED <<cache_enabled, cache_failed>>

\* line 337 (return_exceptions=True), then lines 339-373 and 420-433
RagRespond(r, i, reply) ==
    /\ req[r].pc = "rag"
    /\ i \in 1..Len(req[r].rag)
    /\ req[r].rag[i] = "pending"
    /\ LET t   == req[r]
           rag == [t.rag EXCEPT ![i] = IF reply.kind = "raise" THEN "exception" ELSE reply.kind]
       IN  req' = [req EXCEPT ![r] =
                      IF AllDone(rag)
                      THEN AfterGather(t, MergeContext(t.request, t.mat, t.env, t.proc, rag))
                      ELSE [t EXCEPT !.rag = rag]]
    /\ UNCHANGED <<cache_enabled, cache_failed>>

\* the generation reply handled with the cache write moved after the except branch,
\* so that whatever plan is returned, the fallback included, is written
GenerateRespondCachingFallback(r, reply) ==
    /\ req[r].pc = "generate"
    /\ LET t == [req[r] EXCEPT !.gen = IF GenerationFailure(reply) THEN "failed" ELSE "delivered"]
           plan == IF GenerationAccepted(reply) THEN reply.data
                   ELSE _create_fallback_rescue_plan(t.request)
       IN  req' = [req EXCEPT ![r] =
                      IF cache_enabled
                      THEN [t EXCEPT !.pc = "cache_set", !.plan = plan, !.ctx = EmptyContext]
                      ELSE IF GenerationAccepted(reply)
                           THEN Done(t, PlanResult(plan, "generated"))
                           ELSE Fallback(t)]
    /\ UNCHANGED <<cache_enabled, cache_failed>>

\* generate_rescue_plan, lines 433-453 with _set_cached_result lines 272-282
GenerateRespond(r, reply) ==
    /\ req[r].pc = "generate"
    /\ LET t == [req[r] EXCEPT !.gen = IF GenerationFailure(reply) THEN "failed" ELSE "delivered"]
       IN  req' = [req EXCEPT ![r] =
                      IF ~GenerationAccepted(reply) THEN Fallback(t)
                      ELSE IF cache_enabled
                           THEN [t EXCEPT !.pc = "cache_set", !.plan = reply.data,
                                          !.ctx = EmptyContext]
                           ELSE Done(t, PlanResult(reply.data, "generated"))]
    /\ UNCHANGED <<cache_enabled, cache_failed>>

\* _set_cached_result, lines 277-285, then generate_rescue_plan returns the plan
CacheSetRespond(r, reply) ==
    /\ req[r].pc = "cache_set"
    /\ cache_enabled' = (cache_enabled /\ reply.kind # "raise")
    /\ cache_failed' = (cache_failed \/ reply.kind = "raise")
    /\ req' = [req EXCEPT ![r] = Done(req[r], PlanResult(req[r].plan, "generated"))]

CoordIdle ==
    /\ cache_enabled = TRUE
    /\ req = [r \in Tasks |-> IdleTask]
    /\ cache_failed = FALSE

\* the responses of the upstream services to task r
Upstream(r) ==
    \/ req[r].pc = "cache_get" /\ \E reply \in PlanReplies : CacheGetRespond(r, reply)
    \/ req[r].pc = "materials" /\ \E i \in 1..Len(req[r].mat), reply \in LookupReplies :
                                     MaterialRespond(r, i, reply)
    \/ req[r].pc = "environment" /\ \E reply \in LookupReplies : EnvironmentRespond(r, reply)
    \/ req[r].pc = "procedures" /\ \E reply \in LookupReplies : ProceduresRespond(r, reply)
    \/ req[r].pc = "rag" /\ \E i \in 1..Len(req[r].rag), reply \in LookupReplies :
                               RagRespond(r, i, reply)
    \/ req[r].pc = "generate" /\ \E reply \in PlanReplies : GenerateRespond(r, reply)
    \/ req[r].pc = "cache_set" /\ \E reply \in SetReplies : CacheSetRespond(r, reply)

\* ------------------------------------------------------------------------
\* Cache key (EmergencyService._generate_cache_key)
\* ------------------------------------------------------------------------
\* JSON values: an atom, a list, or an object held as the sequence of its
\* <<key, value>> pairs in insertion order (a Python dict keeps that order).
Atom(x) == [t |-> "atom", v |-> x]
List(xs) == [t |-> "list", v |-> xs]
Obj(pairs) == [t |-> "obj", v |-> pairs]
Null == Atom("null")

Get(obj, k) == LET i == CHOOSE j \in 1..Len(obj.v) : obj.v[j][1] = k IN obj.v[i][2]

Has(obj, k) == \E j \in 1..Len(obj.v) : obj.v[j][1] = k

\* the object keys in use, in string order
SortedKeys == <<"additional_info", "area", "environment", "exits", "h", "items", "location",
                "material", "name", "quantity", "size", "type", "urgency_level", "user_id", "w">>

Rank(k) == CHOOSE i \in 1..Len(SortedKeys) : SortedKeys[i] = k

RECURSIVE SortByKey(_)
SortByKey(ps) ==
    IF ps = <<>> THEN <<>>
    ELSE LET m == CHOOSE i \in 1..Len(ps) : \A j \in 1..Len(ps) : Rank(ps[i][1]) <= Rank(ps[j][1])
         IN  <<ps[m]>> \o SortByKey([i \in 1..(Len(ps) - 1) |-> IF i < m THEN ps[i] ELSE ps[i + 1]])

\* json.dumps(x) without sort_keys
RECURSIVE json_dumps_unsorted(_)
json_dumps_unsorted(x) ==
    CASE x.t = "atom" -> x
      [] x.t = "list" -> List([i \in 1..Len(x.v) |-> json_dumps_unsorted(x.v[i])])
      [] x.t = "obj"  -> Obj([i \in 1..Len(x.v) |-> <<x.v[i][1], json_dumps_unsorted(x.v[i][2])>>])

\* json.dumps(x, sort_keys=True): the text, held as the value tree in output order
RECURSIVE json_dumps(_)
json_dumps(x) ==
    CASE x.t = "atom" -> x
      [] x.t = "list" -> List([i \in 1..Len(x.v) |-> json_dumps(x.v[i])])
      [] x.t = "obj"  -> Obj(SortByKey([i \in 1..Len(x.v) |-> <<x.v[i][1], json_dumps(x.v[i][2])>>]))

\* hashlib.md5(...).hexdigest(), idealised as collision-free on the inputs considered
md5(text) == [md5_of |-> text]

\* RescuePlanRequest(**body): pydantic keeps the declared fields by name
ParseItem(o) ==
    [name |-> Get(o, "name").v, material |-> Get(o, "material").v,
     quantity |-> Get(o, "quantity").v, location |-> Get(o, "location").v,
     size |-> IF Has(o, "size") THEN Get(o, "size") ELSE Null]

ParseRequest(body) ==
    [items |-> [i \in 1..Len(Get(body, "items").v) |-> ParseItem(Get(body, "items").v[i])],
     environment |-> [type |-> Get(Get(body, "environment"), "type").v,
                      area |-> Get(Get(body, "environment"), "area").v,
                      exits |-> Get(Get(body, "environment"), "exits").v],
     additional_info |-> Get(body, "additional_info").v,
     urgency_level |-> Get(body, "urgency_level").v,
     user_id |-> Get(body, "user_id").v]

\* Item.model_dump() and Environment.model_dump(): fields in declaration order
ItemDump(item) ==
    Obj(<< <<"name", Atom(item.name)>>, <<"material", Atom(item.material)>>,
           <<"quantity", Atom(item.quantity)>>, <<"location", Atom(item.location)>>,
           <<"size", item.size>> >>)

EnvironmentDump(env) ==
    Obj(<< <<"type", Atom(env.type)>>, <<"area", Atom(env.area)>>, <<"exits", Atom(env.exits)>> >>)

_generate_cache_key(request) ==
    LET request_data ==
            Obj(<< <<"items", List([i \in 1..Len(request.items) |-> ItemDump(request.items[i])])>>,
                   <<"environment", EnvironmentDump(request.environment)>>,
                   <<"additional_info", Atom(request.additional_info)>>,
                   <<"urgency_level", Atom(request.urgency_level)>> >>)
    IN  <<"emergency:rescue_plan:", md5(json_dumps(request_data))>>

Ordered(pairs, flip) == Obj(IF flip THEN Reverse(pairs) ELSE pairs)

\* a posted body: one item with a size dict; the three flips choose the field order
\* of the body, of the item and of the size dict
Body(flipTop, flipItem, flipSize, quantity, user) ==
    Ordered(<< <<"items", List(<< Ordered(<< <<"name", Atom(<<"c">>)>>,
                                            <<"material", Atom("wood")>>,
                                            <<"quantity", Atom(quantity)>>,
                                            <<"location", Atom(<<"r">>)>>,
                                            <<"size", Ordered(<< <<"w", Atom(1)>>, <<"h", Atom(2)>> >>,
                                                              flipSize)>> >>, flipItem) >>)>>,
               <<"environment", Obj(<< <<"type", Atom("indoor")>>, <<"area", Atom("residential")>>,
                                       <<"exits", Atom(2)>> >>)>>,
               <<"additional_info", Atom("")>>,
               <<"urgency_level", Atom(Urgent)>>,
               <<"user_id", Atom(user)>> >>, flipTop)

\* item quantities that occur in the posted bodies
Quantities == {1, 2}

Bodies ==
    {Body(a, b, c, q, u) : a \in BOOLEAN, b \in BOOLEAN, c \in BOOLEAN, q \in Quantities,
                           u \in {"u1", "u2"}}

NoKey == <<"", md5(Null)>>

\* generate_rescue_plan, line 412, for the i-th posted body
GenerateCacheKey(i) ==
    /\ key[i] = NoKey
    /\ key' = [key EXCEPT ![i] = _generate_cache_key(ParseRequest(raw[i]))]
    /\ UNCHANGED raw

KeyIdle ==
    /\ raw = <<Body(FALSE, FALSE, FALSE, 1, "u1"), Body(FALSE, FALSE, FALSE, 1, "u1")>>
    /\ key = <<NoKey, NoKey>>

\* ------------------------------------------------------------------------
\* OllamaService._parse_rescue_plan_response
\* (src/backend/services/ollama_service.py)
\* ------------------------------------------------------------------------
\* The response is a sequence of tokens: punctuation marks are single
\* characters, digits are single characters, the keywords the regular
\* expressions look for and all other words are one token each. Chinese
\* tokens are written as ASCII glosses: "di" .. "bu" frame the ordinal of a
\* step header, "fwcolon", "fwcomma", "dunhao", "fwperiod" are the full-width
\* colon, comma, enumeration comma and full stop, "fenzhong" is the unit
\* "minutes", "fangan" and "biaoti" are the words "plan" and "title".
Digits == {"0", "1", "2", "3", "4", "5", "6", "7", "8", "9"}
Colons == {"fwcolon", ":"}
FullStops == {"fwperiod", "."}

\* int() of a run of digits
RECURSIVE ToInt(_)
ToInt(ds) ==
    LET DigitValue(d) ==
            CASE d = "0" -> 0 [] d = "1" -> 1 [] d = "2" -> 2 [] d = "3" -> 3 [] d = "4" -> 4
              [] d = "5" -> 5 [] d = "6" -> 6 [] d = "7" -> 7 [] d = "8" -> 8 [] d = "9" -> 9
    IN  IF ds = <<>> THEN 0
        ELSE 10 * ToInt(SubSeq(ds, 1, Len(ds) - 1)) + DigitValue(ds[Len(ds)])

\* the first position from i on whose token is outside S (Len + 1 if none)
RECURSIVE SkipWhile(_, _, _)
SkipWhile(line, i, S) ==
    IF i <= Len(line) /\ line[i] \in S THEN SkipWhile(line, i + 1, S) ELSE i

From(line, i) == SubSeq(line, i, Len(line))

Contains(line, t) == \E i \in 1..Len(line) : line[i] = t

\* str.replace(t, "")
RECURSIVE Remove(_, _)
Remove(line, t) ==
    IF line = <<>> THEN <<>>
    ELSE IF Head(line) = t THEN Remove(Tail(line), t) ELSE <<Head(line)>> \o Remove(Tail(line), t)

\* str.split(sep) / re.split on a class of one-character separators
RECURSIVE SplitOn(_, _)
SplitOn(s, Seps) ==
    LET p == SkipWhile(s, 1, {s[i] : i \in 1..Len(s)} \ Seps)
    IN  IF p > Len(s) THEN <<s>>
        ELSE <<SubSeq(s, 1, p - 1)>> \o SplitOn(From(s, p + 1), Seps)

\* str.rstrip(chars)
RECURSIVE rstripChars(_, _)
rstripChars(s, S) ==
    IF s # <<>> /\ s[Len(s)] \in S THEN rstripChars(SubSeq(s, 1, Len(s) - 1), S) ELSE s

\* [f(x) for x in xs if f(x)] with f = str.strip
RECURSIVE StripNonEmpty(_)
StripNonEmpty(xs) ==
    IF xs = <<>> THEN <<>>
    ELSE (IF strip(Head(xs)) = <<>> THEN <<>> ELSE <<strip(Head(xs))>>)
         \o StripNonEmpty(Tail(xs))

\* lines 425-426: response.strip(), split on newlines, strip, drop empty lines
CleanLines(response) == StripNonEmpty(SplitOn(rstripChars(From(response, SkipWhile(response, 1, {Blank, "\n"})), {Blank, "\n"}), {"\n"}))

\* re.match(r'^#{1,3}\s*di([numerals\d]+)bu[colon](.+)', line):
\* the position where group 2 starts, 0 when the line does not match
StepMatch(line) ==
    LET h == SkipWhile(line, 1, {"#"})
        d == SkipWhile(line, h, {Blank})
        n == SkipWhile(line, d + 1,
                       {"yi", "er", "san", "si", "wu", "liu", "qi", "ba", "jiu", "shi"} \cup Digits)
    IN  IF /\ h \in 2..4
           /\ d <= Len(line) /\ line[d] = "di"
           /\ n > d + 1
           /\ n + 2 <= Len(line)
           /\ line[n] = "bu"
           /\ line[n + 1] \in Colons
        THEN n + 2 ELSE 0

\* the field matcher without the optional leading dash
FieldMatchNoDash(line, Words) ==
    LET a == SkipWhile(line, SkipWhile(line, 1, {Blank}), {"*"})
        b == SkipWhile(line, a + 1, {"*"})
    IN  IF /\ a <= Len(line) /\ line[a] \in Words
           /\ b <= Len(line) /\ line[b] \in Colons
        THEN b + 1 ELSE 0

\* re.match(r'^-?\s*\**(word)\**[colon]', line): the position after the
\* colon, 0 when the line does not match
FieldMatch(line, Words) ==
    LET a == SkipWhile(line, SkipWhile(line, IF Head(line) = "-" THEN 2 ELSE 1, {Blank}), {"*"})
        b == SkipWhile(line, a + 1, {"*"})
    IN  IF /\ a <= Len(line) /\ line[a] \in Words
           /\ b <= Len(line) /\ line[b] \in Colons
        THEN b + 1 ELSE 0

\* re.search(r'(\d+)\s*fenzhong', t) from position p on: the number, -1 if none
RECURSIVE SearchMinutes(_, _)
SearchMinutes(t, p) ==
    IF p > Len(t) THEN -1
    ELSE LET q == SkipWhile(t, p, Digits)
             r == SkipWhile(t, q, {Blank})
         IN  IF q > p /\ r <= Len(t) /\ t[r] = "fenzhong"
             THEN ToInt(SubSeq(t, p, q - 1))
             ELSE SearchMinutes(t, p + 1)

\* re.search(r'(\d+)', t): the first run of digits, -1 if none
SearchNumber(t) ==
    LET p == SkipWhile(t, 1, {t[i] : i \in 1..Len(t)} \ Digits)
    IN  IF p > Len(t) THEN -1 ELSE ToInt(SubSeq(t, p, SkipWhile(t, p, Digits) - 1))

\* current_step = None
NoStep == [step_number |-> 0, description |-> <<>>, equipment |-> <<>>, warnings |-> <<>>,
           estimated_time |-> NoneInt]

\* lines 428-436: the title is taken from the first line that carries one
RECURSIVE ExtractTitle(_)
ExtractTitle(lines) ==
    IF lines = <<>> THEN <<"fire_rescue_plan">>
    ELSE LET line == Head(lines)
         IN  IF Head(line) = "#" /\ (Contains(line, "fangan") \/ Contains(line, "biaoti"))
             THEN strip(Remove(line, "#"))
             ELSE IF Contains(line, "biaoti") /\ Contains(line, ":")
                  THEN strip(From(line, SkipWhile(line, 1, SeqToSet(line) \ {":"}) + 1))
                  ELSE ExtractTitle(Tail(lines))

\* the loop variables of lines 439-442
LoopStart == [steps |-> <<>>, current_step |-> NoStep, step_number |-> 1,
              current_section |-> "None"]

\* lines 446-518: the body of the loop for one line
ProcessLine(st, line) ==
    LET sm  == StepMatch(line)
        dm  == FieldMatch(line, {"miaoshu", "shuoming"})
        em  == FieldMatch(line, {"suoxushebei"})
        wm  == FieldMatch(line, {"zhuyishixiang"})
        tm  == FieldMatch(line, {"yujishijian"})
        cur == st.current_step
    IN  IF sm # 0
        THEN [steps |-> IF cur # NoStep THEN Append(st.steps, cur) ELSE st.steps,
              current_step |-> [step_number |-> st.step_number,
                                description |-> strip(From(line, sm)),
                                equipment |-> <<>>, warnings |-> <<>>, estimated_time |-> 5],
              step_number |-> st.step_number + 1,
              current_section |-> "None"]
        ELSE IF cur = NoStep THEN st
        ELSE IF dm # 0 /\ dm <= Len(line)
        THEN LET desc_text == strip(From(line, dm))
             IN  [st EXCEPT !.current_step.description =
                                IF desc_text # <<>> /\ desc_text # <<"[description]">>
                                THEN desc_text ELSE @,
                            !.current_section = "description"]
        ELSE IF em # 0
        THEN LET equipment_text == rstripChars(strip(From(line, em)), FullStops)
             IN  [st EXCEPT !.current_step.equipment =
                                IF equipment_text # <<>> /\ equipment_text # <<"[equipment]">>
                                THEN @ \o StripNonEmpty(SplitOn(equipment_text, {",", "fwcomma", "dunhao"}))
                                ELSE @,
                            !.current_section = "equipment"]
        ELSE IF wm # 0
        THEN LET warning_text == rstripChars(strip(From(line, wm)), FullStops)
             IN  [st EXCEPT !.current_step.warnings =
                                IF warning_text # <<>> /\ warning_text # <<"[warning]">>
                                THEN Append(@, warning_text) ELSE @,
                            !.current_section = "warnings"]
        ELSE IF tm # 0
        THEN LET time_text == rstripChars(strip(From(line, tm)), FullStops)
                 minutes   == SearchMinutes(time_text, 1)
                 number    == SearchNumber(time_text)
             IN  [st EXCEPT !.current_step.estimated_time =
                                IF minutes # -1 THEN minutes
                                ELSE IF number # -1 THEN number ELSE @,
                            !.current_section = "time"]
        ELSE IF Head(line) \in {"-", "bullet"}
        THEN LET item_text == strip(From(line, SkipWhile(line, 1, {"-", "bullet"})))
             IN  IF st.current_section = "equipment" /\ item_text # <<>>
                 THEN [st EXCEPT !.current_step.equipment = Append(@, item_text)]
                 ELSE IF st.current_section = "warnings" /\ item_text # <<>>
                      THEN [st EXCEPT !.current_step.warnings = Append(@, item_text)]
                      ELSE st
        ELSE st

\* lines 525-541 and 582-597: the two steps used when none was parsed
DefaultSteps ==
    << [step_number |-> 1, description |-> <<"assess_the_scene">>,
        equipment |-> <<<<"protective_gear">>, <<"communication_gear">>>>,
        warnings |-> <<<<"mind_scene_safety">>, <<"keep_communication">>>>,
        estimated_time |-> 5],
       [step_number |-> 2, description |-> <<"plan_and_execute">>,
        equipment |-> <<<<"rescue_tools">>, <<"safety_gear">>>>,
        warnings |-> <<<<"follow_safety_procedure">>>>,
        estimated_time |-> 30] >>

\* lines 576-601: the plan returned by the except branch
DefaultPlan ==
    [title |-> <<"fire_rescue_plan">>, priority |-> "HIGH", steps |-> DefaultSteps,
     equipment_list |-> <<<<"protective_gear">>, <<"communication_gear">>, <<"rescue_tools">>,
                          <<"safety_gear">>>>,
     warnings |-> <<<<"mind_scene_safety">>, <<"keep_communication">>,
                    <<"follow_safety_procedure">>>>,
     estimated_duration |-> 60]

\* what follows the loop without the default steps and with a plan that is
\* returned as built
FinishPlanAllowingNoSteps(st, title, urgency_level) ==
    LET steps == IF st.current_step # NoStep THEN Append(st.steps, st.current_step)
                 ELSE st.steps
        total == SumTimes(steps)
    IN  [title |-> title,
         priority |-> IF urgency_level \in {Low, General} THEN "MEDIUM"
                      ELSE IF urgency_level \in {Urgent, VeryUrgent} THEN "URGENT"
                      ELSE "HIGH",
         steps |-> steps,
         equipment_list |-> list_set(Extend(steps, "equipment")),
         warnings |-> list_set(Extend(steps, "warnings")),
         estimated_duration |-> IF total = 0 THEN 60 ELSE total]

\* lines 520-574: what follows the loop; a failing RescuePlan(...) leads to the except branch
FinishPlan(st, title, urgency_level) ==
    LET parsed == IF st.current_step # NoStep THEN Append(st.steps, st.current_step)
                  ELSE st.steps
        steps  == IF parsed = <<>> THEN DefaultSteps ELSE parsed
        total  == SumTimes(steps)
        plan   == [title |-> title,
                   priority |-> IF urgency_level \in {Low, General} THEN "MEDIUM"
                                ELSE IF urgency_level \in {Urgent, VeryUrgent} THEN "URGENT"
                                ELSE "HIGH",
                   steps |-> steps,
                   equipment_list |-> list_set(Extend(steps, "equipment")),
                   warnings |-> list_set(Extend(steps, "warnings")),
                   estimated_duration |-> IF total = 0 THEN 60 ELSE total]
    IN  IF /\ strip(plan.title) # <<>>
           /\ validate_steps(plan.steps)
           /\ plan.estimated_duration \in 1..1440
        THEN plan ELSE DefaultPlan

\* sep.join(parts)
RECURSIVE Join(_, _)
Join(parts, sep) ==
    IF parts = <<>> THEN <<>>
    ELSE IF Len(parts) = 1 THEN parts[1]
    ELSE parts[1] \o sep \o Join(Tail(parts), sep)

\* one step of the example in the prompt: header line and four field lines
ExampleStep(numeral, title, description, equipment, warning, minutes) ==
    Join(<< <<"#", "#", "#", Blank, "di", numeral, "bu", "fwcolon">> \o title,
            <<"-", Blank, "miaoshu", "fwcolon">> \o description,
            <<"-", Blank, "suoxushebei", "fwcolon">> \o Join([i \in 1..Len(equipment) |-> <<equipment[i]>>], <<"fwcomma">>),
            <<"-", Blank, "zhuyishixiang", "fwcolon">> \o warning,
            <<"-", Blank, "yujishijian", "fwcolon">> \o minutes \o <<"fenzhong">> >>,
         <<"\n">>)

\* _build_rescue_plan_prompt, lines 387-409: the four-step example text
ExampleText ==
    Join(<< ExampleStep("yi", <<"respond_at_once">>,
                <<"call", "1", "1", "9", "fwcomma", "evacuate", "fwcomma", "shut_power_and_gas",
                  "fwcomma", "stop_the_spread">>,
                <<"phone", "emergency_light", "megaphone", "smoke_mask">>,
                <<"stay_safe", "fwcomma", "stay_calm", "fwcomma", "old_and_young_first",
                  "fwcomma", "no_elevator">>,
                <<"3">>),
            ExampleStep("er", <<"control_the_fire">>,
                <<"use_extinguishers", "fwcomma", "cut_the_path", "fwcomma", "protect_facilities">>,
                <<"powder_extinguisher", "fire_hose", "fire_blanket", "protective_suit",
                  "respirator">>,
                <<"mind_the_wind", "fwcomma", "stand_upwind", "fwcomma", "keep_distance",
                  "fwcomma", "avoid_smoke">>,
                <<"1", "0">>),
            ExampleStep("san", <<"evacuate_people">>,
                <<"follow_the_signs", "fwcomma", "count_people", "fwcomma", "nobody_left">>,
                <<"emergency_lamp", "radio", "first_aid_kit", "cordon_tape">>,
                <<"stay_low", "fwcomma", "wet_towel", "fwcomma", "do_not_return", "fwcomma",
                  "count_at_once">>,
                <<"5">>),
            ExampleStep("si", <<"clear_the_scene">>,
                <<"confirm_fire_out", "fwcomma", "check_reignition", "fwcomma", "remove_hazards",
                  "fwcomma", "assess_loss">>,
                <<"thermal_imager", "cleanup_tools", "warning_signs", "camera">>,
                <<"wait_for_clearance", "fwcomma", "structure_stability", "fwcomma",
                  "protect_the_scene">>,
                <<"1", "5">> ) >>,
         <<"\n", "\n">>)

\* lines a generated text is made of
LineMenu ==
    { <<"#", "#", "di", "1", "bu", ":", "go">>,
      <<"#", Blank, "fangan", "biaoti">>,
      <<"miaoshu", ":", "[description]">>,
      <<"*", "*", "suoxushebei", "*", "*", "fwcolon", "hose", "dunhao", "axe", "fwperiod">>,
      <<"-", Blank, "zhuyishixiang", ":", Blank, "keep_distance", ".">>,
      <<"yujishijian", ":", "about", Blank, "1", "2", Blank, "fenzhong">>,
      <<"yujishijian", ":", "0">>,
      <<"-", Blank, "mask">>,
      <<"biaoti", ":">>,
      <<Blank, Blank>> }

\* the generated texts handed to the parser: the example, every text of up to
\* ParseMaxLines lines, and the texts made of a step header, one more line and a
\* list item
Responses ==
    {ExampleText}
        \cup {Join(ls, <<"\n">>) : ls \in SeqsUpTo(LineMenu, ParseMaxLines)}
        \cup {Join(<< <<"#", "#", "di", "1", "bu", ":", "go">>, l, <<"-", Blank, "mask">> >>, <<"\n">>) :
                  l \in LineMenu}

ParseIdle ==
    parse = [pc |-> "idle", response |-> <<>>, urgency_level |-> Medium, lines |-> <<>>,
             i |-> 0, title |-> <<>>, st |-> LoopStart, plan |-> NoData]

\* lines 421-442: the text is cleaned, the title extracted, the loop entered
ParseStart(response, urgency_level) ==
    /\ parse.pc = "idle"
    /\ parse' = [pc |-> "loop", response |-> response, urgency_level |-> urgency_level,
                 lines |-> CleanLines(response), i |-> 1,
                 title |-> ExtractTitle(CleanLines(response)), st |-> LoopStart,
                 plan |-> NoData]
    /\ UNCHANGED <<hash_seed, synth>>

\* lines 446-518: one iteration of the loop over the lines
ParseLine ==
    /\ parse.pc = "loop"
    /\ parse.i <= Len(parse.lines)
    /\ parse' = [parse EXCEPT !.st = ProcessLine(@, parse.lines[parse.i]), !.i = @ + 1]
    /\ UNCHANGED <<hash_seed, synth>>

\* lines 520-601: the loop is over, the plan is built and returned
ParseReturn ==
    /\ parse.pc = "loop"
    /\ parse.i > Len(parse.lines)
    /\ parse' = [parse EXCEPT !.pc = "returned",
                              !.plan = FinishPlan(parse.st, parse.title, parse.urgency_level)]
    /\ UNCHANGED <<hash_seed, synth>>

\* ------------------------------------------------------------------------
\* The fallback synthesizer called on its own, and the service process
\* ------------------------------------------------------------------------
NoCall == [request |-> NoRequest, plan |-> NoData]

SynthIdle == synth = <<NoCall, NoCall>>

\* _create_fallback_rescue_plan(request), its plan kept as the i-th observation
Synthesize(i, request) ==
    /\ synth' = [synth EXCEPT ![i] = [request |-> request,
                                      plan |-> _create_fallback_rescue_plan(request)]]
    /\ UNCHANGED <<hash_seed, parse>>

\* service_manager.restart_service: the process is stopped and started anew;
\* the new interpreter draws its own hash seed
RestartService ==
    /\ hash_seed' \in HashSeeds
    /\ parse' = [pc |-> "idle", response |-> <<>>, urgency_level |-> Medium, lines |-> <<>>,
                 i |-> 0, title |-> <<>>, st |-> LoopStart, plan |-> NoData]
    /\ UNCHANGED synth

\* interpreter start: the hash seed is drawn, nothing is in progress
HostStart == hash_seed \in HashSeeds /\ ParseIdle /\ SynthIdle

\* a process whose hash seed plays no part in what is examined
HostIdle == hash_seed = "seed_a" /\ ParseIdle /\ SynthIdle

\* ------------------------------------------------------------------------
\* Specifications
\* ------------------------------------------------------------------------
ClientIdle ==
    /\ circuit_breakers = [s \in Services |-> NoBreaker]
    /\ call = [c \in Callers |-> IdleCall]
    /\ consec_failures = [s \in Services |-> 0]
    /\ probe = [s \in Services |-> NoCaller]
    /\ last_outcome = Finished(NoCaller, "", None)

\* the shared ServiceClient under concurrent callers
ClientInit == ClientIdle /\ CoordIdle /\ KeyIdle /\ HostIdle /\ StreakIdle

ClientNext ==
    \/ \E c \in Callers, s \in Services : CallService(c, s) /\ UNCHANGED <<coordVars, keyVars, hostVars, obsVars>>
    \/ \E c \in Callers, s \in Unregistered : CallUnregistered(c, s) /\ UNCHANGED <<coordVars, keyVars, hostVars, obsVars>>
    \/ \E c \in Callers, o \in Outcomes : Respond(c, o) /\ UNCHANGED <<coordVars, keyVars, hostVars, obsVars>>
    \/ \E c \in Callers : Retry(c) /\ UNCHANGED <<coordVars, keyVars, hostVars, obsVars>>
    \/ Tick /\ UNCHANGED <<coordVars, keyVars, hostVars, obsVars>>

ClientSpec == ClientInit /\ [][ClientNext]_vars

\* the ServiceClient under one caller that issues its calls one after another
SoloNext ==
    \/ \E s \in Services : CallService(1, s) /\ UNCHANGED <<coordVars, keyVars, hostVars, obsVars>>
    \/ \E s \in Unregistered : CallUnregistered(1, s) /\ UNCHANGED <<coordVars, keyVars, hostVars, obsVars>>
    \/ \E o \in Outcomes : Respond(1, o) /\ ObserveRespond(1, o) /\ UNCHANGED <<coordVars, keyVars, hostVars>>
    \/ Retry(1) /\ UNCHANGED <<coordVars, keyVars, hostVars, obsVars>>
    \/ Tick /\ UNCHANGED <<coordVars, keyVars, hostVars, obsVars>>

SoloSpec == ClientInit /\ [][SoloNext]_vars

\* the awaited request always completes (httpx enforces the request timeout),
\* a sleep ends once its time has passed, and the clock advances
SoloLiveSpec ==
    /\ SoloSpec
    /\ WF_vars(\E o \in Outcomes : Respond(1, o) /\ ObserveRespond(1, o)
                                    /\ UNCHANGED <<coordVars, keyVars, hostVars>>)
    /\ WF_vars(Retry(1) /\ UNCHANGED <<coordVars, keyVars, hostVars, obsVars>>)
    /\ WF_vars(Tick /\ UNCHANGED <<coordVars, keyVars, hostVars, obsVars>>)

\* the coordinator serving one request at a time
Init == ClientIdle /\ CoordIdle /\ KeyIdle /\ HostStart /\ StreakIdle

Next ==
    \/ \E q \in ValidRequests(MaxItems) \cup InvalidRequests :
           StartRequest(1, q) /\ UNCHANGED <<clientVars, keyVars, hostVars, obsVars>>
    \/ Upstream(1) /\ UNCHANGED <<clientVars, keyVars, hostVars, obsVars>>

Spec == Init /\ [][Next]_vars

\* the coordinator serving concurrent requests
ConcNext ==
    \/ \E r \in Tasks, q \in ConcRequests(ConcMaxItems) :
           StartRequest(r, q) /\ UNCHANGED <<clientVars, keyVars, hostVars, obsVars>>
    \/ \E r \in Tasks : Upstream(r) /\ UNCHANGED <<clientVars, keyVars, hostVars, obsVars>>

ConcSpec == Init /\ [][ConcNext]_vars

\* the cache key as a function of the posted body
KeyInit ==
    /\ ClientIdle
    /\ CoordIdle
    /\ raw \in Bodies \X Bodies
    /\ key = <<NoKey, NoKey>>
    /\ HostIdle
    /\ StreakIdle

KeyNext == \E i \in 1..2 : GenerateCacheKey(i) /\ UNCHANGED <<clientVars, coordVars, hostVars, obsVars>>

KeySpec == KeyInit /\ [][KeyNext]_vars

\* the parser as a function of the generated text
ParseNext ==
    \/ \E response \in Responses, u \in {Urgent, Medium, Low} :
           ParseStart(response, u) /\ UNCHANGED <<clientVars, coordVars, keyVars, obsVars>>
    \/ ParseLine /\ UNCHANGED <<clientVars, coordVars, keyVars, obsVars>>
    \/ ParseReturn /\ UNCHANGED <<clientVars, coordVars, keyVars, obsVars>>

ParseSpec == Init /\ [][ParseNext]_vars

\* the fallback synthesizer called twice, the process possibly restarted in between
FallbackNext ==
    \/ \E i \in 1..2,
          q \in ValidRequests(MaxItems)
                    \cup {MkRequest(<<WoodChair>>, HomeEnv, u) : u \in {Low, General, VeryUrgent}} :
           Synthesize(i, q) /\ UNCHANGED <<clientVars, coordVars, keyVars, obsVars>>
    \/ RestartService /\ UNCHANGED <<clientVars, coordVars, keyVars, obsVars>>

FallbackSpec == Init /\ [][FallbackNext]_vars

\* a step in which caller c gets a network request to s issued by a new invocation
LetThrough(c, s) == call[c].pc = "idle" /\ call'[c].pc = "awaiting" /\ call'[c].svc = s

\* C2: once circuit_breaker_threshold invocations of S in a row have failed, and while
\* the cool-down has not elapsed since the last failure, a new call to S is not let
\* through to the network: it is rejected with the circuit-open error.
C2_RejectAfterThresholdFailures ==
    [][\A c \in Callers, s \in Services :
          (/\ consec_failures[s] >= circuit_breaker_threshold
           /\ circuit_breakers[s].since_failure # NoTime
           /\ circuit_breakers[s].since_failure <= circuit_breaker_timeout)
          => ~LetThrough(c, s)]_vars

\* C3: while the half-open probe of S (the call that found the cool-down elapsed) has
\* not completed, no other call to S is let through to the network.
C3_SingleHalfOpenProbe ==
    [][\A c \in Callers, s \in Services :
          (probe[s] # NoCaller /\ probe[s] # c) => ~LetThrough(c, s)]_vars

\* ------------------------------------------------------------------------
\* Properties of the coordinator
\* ------------------------------------------------------------------------
Ended(r) == req[r].pc = "done"

InGather(t) == t.pc \in {"materials", "environment", "procedures", "rag"}

\* the defects the validation stage is documented to reject
Defective(q) ==
    \/ q.items = <<>>
    \/ Len(q.items) > MaxItemCount
    \/ \E i \in 1..Len(q.items) :
          \/ q.items[i].quantity <= 0
          \/ strip(q.items[i].name) = <<>>
          \/ strip(q.items[i].location) = <<>>
    \/ q.environment.exits <= 0
    \/ q.environment.occupancy # NoneInt /\ q.environment.occupancy < 0

\* C1: a request that passes validation always ends with a RescuePlan returned,
\* never with an exception, whatever the upstream calls did.
C1_ValidRequestYieldsPlan ==
    \A r \in Tasks :
        (Ended(r) /\ ~Defective(req[r].request)) => req[r].result.kind = "plan"

\* C1 witness: a valid request answered by the fallback after the cache had failed
C1_Witness ==
    \E r \in Tasks :
        /\ Ended(r) /\ ~Defective(req[r].request)
        /\ req[r].result.kind = "plan" /\ req[r].result.source = "fallback"
        /\ ~cache_enabled

\* C4: whenever _gather_knowledge_context ends, it has returned a KnowledgeContext
\* (the generation call follows), and the context holds nothing from a lookup that
\* failed, so it is empty when every lookup failed.
C4_GatherNeverRaises ==
    [][\A r \in Tasks :
          (InGather(req[r]) /\ ~InGather(req'[r])) =>
              /\ req'[r].pc = "generate"
              /\ \A m \in req'[r].ctx.material_knowledge :
                     \E i \in 1..Len(req[r].mat) :
                         req[r].mat[i] = "ok" /\ req[r].request.items[i].material = m
              /\ req'[r].ctx.environment_knowledge => req[r].env = "ok"
              /\ req'[r].ctx.rescue_procedures => req[r].proc = "ok"
              /\ \A k \in 1..Len(req'[r].ctx.rag_context) :
                     req[r].rag[req'[r].ctx.rag_context[k]] \in {"ok", "pending"}]_vars

\* C4 witness: the generation call is pending with an empty context
C4_Witness ==
    \E r \in Tasks : req[r].pc = "generate" /\ req[r].ctx = EmptyContext

\* C5: when _gather_knowledge_context ends, its context holds the result of every
\* lookup that succeeded, whatever happened to the other lookups.
C5_FailureRemovesOnlyOwnContribution ==
    [][\A r \in Tasks :
          (InGather(req[r]) /\ req'[r].pc = "generate") =>
              /\ \A i \in 1..Len(req[r].mat) :
                     req[r].mat[i] = "ok" =>
                         req[r].request.items[i].material \in req'[r].ctx.material_knowledge
              /\ req[r].env = "ok" => req'[r].ctx.environment_knowledge
              /\ req[r].proc = "ok" => req'[r].ctx.rescue_procedures
              /\ \A i \in 1..Len(req[r].rag) :
                     req[r].rag[i] = "ok" => i \in SeqToSet(req'[r].ctx.rag_context)]_vars

\* C6: once a cache read or write has ended in an error the flag is false, it never
\* turns true again, and no cache read or write is issued while it is false.
C6_CacheLatch ==
    [][/\ cache_failed' => ~cache_enabled'
       /\ ~cache_enabled => ~cache_enabled'
       /\ \A r \in Tasks :
             (req'[r].pc \in {"cache_get", "cache_set"} /\ req'[r].pc # req[r].pc)
                 => cache_enabled]_vars

\* C6 witness: with the cache latched off, a request's plan was generated and
\* returned without a cache write while another request is being served
C6_Witness ==
    \E r, o \in Tasks :
        /\ r # o
        /\ ~cache_enabled
        /\ Ended(r) /\ req[r].result.kind = "plan" /\ req[r].result.source = "generated"
        /\ InGather(req[o])

\* C7: every returned plan has steps numbered 1..N in order, N >= 1.
C7_ContiguousSteps ==
    \A r \in Tasks :
        (Ended(r) /\ req[r].result.kind = "plan") =>
            /\ Len(req[r].result.plan.steps) >= 1
            /\ \A i \in 1..Len(req[r].result.plan.steps) :
                   req[r].result.plan.steps[i].step_number = i

\* C7 witness: a cached plan of two steps was returned
C7_Witness ==
    \E r \in Tasks :
        /\ Ended(r) /\ req[r].result.kind = "plan"
        /\ req[r].result.source = "cache"
        /\ Len(req[r].result.plan.steps) = 2

\* C8: when the generation stage failed, the four-step fallback plan is returned,
\* and its priority is urgent when the request's urgency is urgent.
C8_FallbackOnGenerationFailure ==
    \A r \in Tasks :
        (Ended(r) /\ req[r].gen = "failed") =>
            /\ req[r].result.kind = "plan"
            /\ req[r].result.source = "fallback"
            /\ [i \in 1..Len(req[r].result.plan.steps) |->
                    req[r].result.plan.steps[i].description]
                 = << <<"alert_and_evacuate">>, <<"contain_the_fire">>,
                      <<"evacuate_and_account">>, <<"post_incident_check">> >>
            /\ req[r].request.urgency_level \in {Urgent, VeryUrgent}
                   => req[r].result.plan.priority = "URGENT"

\* C8 witness: an urgent request whose generation stage failed has been answered
C8_Witness ==
    \E r \in Tasks :
        /\ Ended(r) /\ req[r].gen = "failed"
        /\ req[r].request.urgency_level = Urgent
        /\ req[r].result.kind = "plan"

\* C9: a defective request ends at once with ValidationError: the step that takes
\* it up issues no upstream call and leaves cache_enabled as it was.
C9_ValidationIsTerminal ==
    [][\A r \in Tasks :
          (req[r].pc \in {"idle", "done"} /\ req'[r] # req[r] /\ Defective(req'[r].request)) =>
              /\ req'[r].pc = "done"
              /\ req'[r].result.kind = "raised"
              /\ req'[r].result.exc = "ValidationError"
              /\ cache_enabled' = cache_enabled]_vars

\* C9 witness: a request of more than 50 items was rejected
C9_Witness ==
    \E r \in Tasks :
        /\ Ended(r)
        /\ Len(req[r].request.items) > MaxItemCount
        /\ req[r].result.kind = "raised"

\* ------------------------------------------------------------------------
\* Properties of the cache key
\* ------------------------------------------------------------------------
\* the content of a JSON value: objects as sets of members, without any order
RECURSIVE Content(_)
Content(x) ==
    CASE x.t = "atom" -> x
      [] x.t = "list" -> List([i \in 1..Len(x.v) |-> Content(x.v[i])])
      [] x.t = "obj"  -> [t |-> "obj", v |-> {<<x.v[i][1], Content(x.v[i][2])>> : i \in 1..Len(x.v)}]

KeyFields == {"items", "environment", "additional_info", "urgency_level"}

\* the content of the four fields the key is documented to cover
KeyContent(body) == {m \in Content(body).v : m[1] \in KeyFields}

\* the body with the quantity of its k-th item replaced by q
RECURSIVE WithQuantity(_, _, _)
WithQuantity(x, k, q) ==
    CASE x.t = "atom" -> x
      [] x.t = "list" -> List([i \in 1..Len(x.v) |->
                                 IF i = k
                                 THEN Obj([j \in 1..Len(x.v[i].v) |->
                                              IF x.v[i].v[j][1] = "quantity"
                                              THEN <<"quantity", Atom(q)>> ELSE x.v[i].v[j]])
                                 ELSE x.v[i]])
      [] x.t = "obj"  -> Obj([i \in 1..Len(x.v) |->
                                 IF x.v[i][1] = "items"
                                 THEN <<"items", WithQuantity(x.v[i][2], k, q)>> ELSE x.v[i]])

BothKeyed == key[1] # NoKey /\ key[2] # NoKey

\* C10: bodies with the same content in items, environment, additional_info and
\* urgency_level get the same key whatever the order of their object fields, and
\* bodies that differ in an item's quantity get different keys.
C10_CacheKeyDeterminism ==
    BothKeyed =>
        /\ KeyContent(raw[1]) = KeyContent(raw[2]) => key[1] = key[2]
        /\ (\E q \in Quantities :
                /\ Get(Get(raw[1], "items").v[1], "quantity").v # q
                /\ KeyContent(WithQuantity(raw[1], 1, q)) = KeyContent(raw[2]))
             => key[1] # key[2]

\* C10 witness: two keyed bodies of equal content whose size dicts, item fields and
\* body fields are ordered differently, and that name different users
C10_Witness ==
    /\ BothKeyed
    /\ raw[1] = Body(FALSE, FALSE, FALSE, 1, "u1")
    /\ raw[2] = Body(TRUE, TRUE, TRUE, 1, "u2")
    /\ key[1] = key[2]

\* C11: parsing the four-step example text of the prompt yields exactly
\* four steps, each with a non-empty description, at least one equipment
\* entry, at least one warning and a positive estimated time.
C11_ExampleParsesToFourSteps ==
    (parse.pc = "returned" /\ parse.response = ExampleText) =>
        /\ Len(parse.plan.steps) = 4
        /\ \A k \in 1..Len(parse.plan.steps) :
               /\ strip(parse.plan.steps[k].description) # <<>>
               /\ Len(parse.plan.steps[k].equipment) >= 1
               /\ Len(parse.plan.steps[k].warnings) >= 1
               /\ parse.plan.steps[k].estimated_time > 0

\* the example text has been parsed to the end and the second step carries
\* the five pieces of equipment and the ten minutes written in it
C11_Witness ==
    /\ parse.pc = "returned"
    /\ parse.response = ExampleText
    /\ Len(parse.plan.steps) = 4
    /\ Len(parse.plan.steps[2].equipment) = 5
    /\ parse.plan.steps[2].estimated_time = 10
    /\ parse.plan.steps[1].description[2] = "1"

\* C12: two calls of the fallback synthesizer with the same environment and
\* urgency level return plans with identical content fields (title,
\* priority, steps, equipment_list, warnings, estimated_duration).
C12_FallbackDeterminism ==
    ( /\ synth[1] # NoCall
      /\ synth[2] # NoCall
      /\ synth[1].request.environment = synth[2].request.environment
      /\ synth[1].request.urgency_level = synth[2].request.urgency_level )
    => synth[1].plan = synth[2].plan

\* the step in which caller c's invocation on s ends with an exception
FailedReturn(c, s) ==
    /\ call[c].pc = "awaiting"
    /\ call[c].svc = s
    /\ call'[c].pc = "idle"
    /\ last_outcome'.result.type # "response"

\* the step in which caller c's invocation on s returns a response
SuccessfulReturn(c, s) ==
    /\ call[c].pc = "awaiting"
    /\ call[c].svc = s
    /\ call'[c].pc = "idle"
    /\ last_outcome'.result.type = "response"

\* a service without a record is treated like one with a closed breaker
StateOf(b) == IF b.state = "absent" THEN "closed" ELSE b.state

\* C13: when the breaker of a service is half-open, a call to that service
\* that fails puts the breaker back to open.
C13_HalfOpenFailureReopens ==
    [][\A c \in Callers, s \in Services :
          (FailedReturn(c, s) /\ circuit_breakers[s].state = "half-open")
          => circuit_breakers'[s].state = "open"]_vars

\* C14: the state of a breaker changes only from closed to open when the
\* failure counter reaches the threshold, from open to half-open after the
\* cool-down has elapsed since the last failure, from half-open to closed on
\* a success and from half-open to open on a failure.
C14_OnlyFourEdges ==
    [][\A s \in Services :
          LET a == StateOf(circuit_breakers[s])
              b == StateOf(circuit_breakers'[s])
          IN  a # b =>
                \/ /\ a = "closed" /\ b = "open"
                   /\ circuit_breakers'[s].failure_count >= circuit_breaker_threshold
                \/ /\ a = "open" /\ b = "half-open"
                   /\ circuit_breakers[s].since_failure > circuit_breaker_timeout
                \/ /\ a = "half-open" /\ b = "closed"
                   /\ \E c \in Callers : SuccessfulReturn(c, s)
                \/ /\ a = "half-open" /\ b = "open"
                   /\ \E c \in Callers : FailedReturn(c, s)]_vars

\* C15: a successful call to S resets the failure counter of S to 0 and
\* moves a half-open breaker to closed; the breaker of S opens only when
\* the failed calls since the last successful one number the threshold.
C15_SuccessResets ==
    [][\A s \in Services :
          /\ \A c \in Callers :
                SuccessfulReturn(c, s) =>
                    /\ circuit_breakers'[s].failure_count = 0
                    /\ circuit_breakers[s].state = "half-open"
                           => circuit_breakers'[s].state = "closed"
          /\ (StateOf(circuit_breakers[s]) # "open" /\ circuit_breakers'[s].state = "open")
                => consec_failures'[s] >= circuit_breaker_threshold]_vars

\* a call has returned a response after a failure had been recorded: the
\* counter is back to 0 and the breaker is closed
C15_Witness ==
    \E s \in Services :
        /\ last_outcome.result.type = "response"
        /\ last_outcome.svc = s
        /\ consec_failures[s] = 0
        /\ circuit_breakers[s].since_failure # NoTime
        /\ circuit_breakers[s].failure_count = 0
        /\ circuit_breakers[s].state = "closed"

\* C16: calls answered with an error status count as failures: with the
\* breaker of S closed, the K-th consecutive call to S whose attempts were
\* all answered with an error status opens the breaker of S.
C16_ErrorStatusOpensBreaker ==
    [][\A s \in Services :
          ( /\ StateOf(circuit_breakers[s]) = "closed"
            /\ status_streak.count[s] < circuit_breaker_threshold
            /\ status_streak'.count[s] = circuit_breaker_threshold )
          => circuit_breakers'[s].state = "open"]_vars

\* C17: every recorded failure raises failure_count by exactly one, and the
\* breaker is open as soon as the failed calls since the last successful
\* one number the threshold, whatever the interleaving of the callers.
C17_NoLostUpdate ==
    [][\A c \in Callers, s \in Services :
          FailedReturn(c, s) =>
              /\ circuit_breakers'[s].failure_count = circuit_breakers[s].failure_count + 1
              /\ consec_failures'[s] >= circuit_breaker_threshold
                     => circuit_breakers'[s].state = "open"]_vars

\* C18: a call inside its retry loop issues no further request once the
\* breaker of its service is open.
C18_NoRetryWhenOpen ==
    [][\A c \in Callers :
          (call[c].pc = "sleeping" /\ call'[c].pc = "awaiting")
          => ~_is_circuit_breaker_open(circuit_breakers, call[c].svc).ret]_vars

EnvironmentIssued(t) == t.pc \in {"environment", "procedures", "rag"}

ProceduresIssued(t) == t.pc \in {"procedures", "rag"}

RetrievalIssued(t) == t.pc = "rag"

\* C20: the lookups of one request are in flight together: while a material
\* lookup is still pending, the environment lookup, the procedures lookup
\* and the retrieval searches of that request have been issued.
C20_LookupsInFlightTogether ==
    \A r \in Tasks :
        (req[r].pc = "materials" /\ ~AllDone(req[r].mat))
        => /\ EnvironmentIssued(req[r])
           /\ ProceduresIssued(req[r])
           /\ RetrievalIssued(req[r])

\* ------------------------------------------------------------------------
\* Properties of the cache path of the coordinator
\* ------------------------------------------------------------------------

\* C21: when the cache read of a request is a hit, the request ends in that very
\* step with the cached plan, and a request that returns a cached plan has sent
\* nothing but its cache read: no lookup, no generation call, no cache write.
C21_CacheHitReturnsDirectly ==
    [][\A r \in Tasks :
          /\ \A reply \in PlanReplies :
                (CacheGetRespond(r, reply) /\ _get_cached_result(reply).hit) =>
                    /\ req'[r].pc = "done"
                    /\ req'[r].result = [kind |-> "plan", plan |-> reply.data,
                                         source |-> "cache"]
          /\ (/\ req'[r] # req[r]
              /\ req'[r].pc = "done"
              /\ req'[r].result.kind = "plan"
              /\ req'[r].result.source = "cache")
                => (req[r].pc = "cache_get" /\ req'[r].gen = "none")]_vars

\* C21 witness: a request has returned a plan taken from the cache
C21_Witness ==
    \E r \in Tasks :
        /\ Ended(r)
        /\ req[r].result.kind = "plan"
        /\ req[r].result.source = "cache"
        /\ req[r].gen = "none"
        /\ cache_enabled

\* C22: a request's cache write is issued only from its pending generation call,
\* when that call delivered a reply with success set and data that is a valid plan
\* (the plan written); a request that returns the fallback plan comes straight from
\* its lookups or its generation call, never through a cache write; and a cache
\* read is only issued when the request starts, so never after its generation call.
C22_CacheWriteOnlyAfterAcceptedGeneration ==
    [][\A r \in Tasks :
          /\ (req'[r].pc = "cache_set" /\ req[r].pc # "cache_set") =>
                /\ req[r].pc = "generate"
                /\ req'[r].gen = "delivered"
                /\ RescuePlanValid(req'[r].plan)
                /\ \E reply \in PlanReplies :
                       /\ reply.kind = "dict" /\ reply.success
                       /\ reply.data = req'[r].plan
          /\ (/\ req'[r] # req[r]
              /\ req'[r].pc = "done"
              /\ req'[r].result.kind = "plan"
              /\ req'[r].result.source = "fallback")
                => req[r].pc \in {"procedures", "rag", "generate"}
          /\ (req'[r].pc = "cache_get" /\ req'[r] # req[r]) => req[r].pc \in {"idle", "done"}
          /\ (req'[r].pc = "generate" /\ req[r].pc # "generate")
                => req[r].pc \in {"procedures", "rag"}]_vars

\* C22 witness: a cache write is pending for a plan the generation call delivered,
\* for a request that had read the cache before
C22_Witness ==
    \E r \in Tasks :
        /\ req[r].pc = "cache_set"
        /\ req[r].gen = "delivered"
        /\ RescuePlanValid(req[r].plan)
        /\ cache_enabled /\ ~cache_failed

\* C23: nothing de-duplicates requests. Whatever the other requests are doing, a
\* request whose cache read was no hit starts its own lookups, and a request that
\* returns a generated plan has made its own generation call; so two requests with
\* the same content can both have a write of the same cache key pending (C23_Witness).
C23_NoRequestDeduplication ==
    [][\A r \in Tasks :
          /\ \A reply \in PlanReplies :
                (CacheGetRespond(r, reply) /\ ~_get_cached_result(reply).hit) =>
                    /\ req'[r].pc = "materials"
                    /\ \A i \in 1..Len(req[r].request.items) : req'[r].mat[i] = "direct"
          /\ (/\ req'[r] # req[r]
              /\ req'[r].pc = "done"
              /\ req'[r].result.kind = "plan"
              /\ req'[r].result.source = "generated")
                => (req[r].pc \in {"generate", "cache_set"} /\ req'[r].gen = "delivered")]_vars

\* C23 witness: two requests with the same content (whose cache keys are therefore
\* the same, the key being a function of the content) have both missed the cache,
\* both had a plan generated and both have a cache write pending
C23_Witness ==
    \E r, o \in Tasks :
        /\ r # o
        /\ req[r].request = req[o].request
        /\ req[r].pc = "cache_set" /\ req[o].pc = "cache_set"
        /\ req[r].gen = "delivered" /\ req[o].gen = "delivered"

\* ------------------------------------------------------------------------
\* Properties of the priority mapping and of the response parser
\* ------------------------------------------------------------------------

\* C24: the priority of a fallback plan is the priority the response parser gives
\* to a plan for the same urgency level: MEDIUM for low and general, URGENT for
\* urgent and very urgent, HIGH for every other level.
C24_FallbackPriorityMatchesParser ==
    \A i \in DOMAIN synth :
        synth[i] # NoCall =>
            LET u == synth[i].request.urgency_level
                parsed == FinishPlan(LoopStart, <<"t">>, u)
            IN  /\ synth[i].plan.priority = parsed.priority
                /\ synth[i].plan.priority =
                       IF u \in {Low, General} THEN "MEDIUM"
                       ELSE IF u \in {Urgent, VeryUrgent} THEN "URGENT"
                       ELSE "HIGH"

\* the number of step-header lines of the text being parsed
Headers == Cardinality({i \in 1..Len(parse.lines) : StepMatch(parse.lines[i]) # 0})

\* C25: a text with H >= 1 step-header lines is parsed into exactly H steps,
\* numbered 1..H in order whatever numeral their headers carry, the step that was
\* in progress when the text ended included.
C25_OneStepPerHeader ==
    (parse.pc = "returned" /\ Headers >= 1) =>
        /\ Len(parse.plan.steps) = Headers
        /\ \A i \in 1..Headers : parse.plan.steps[i].step_number = i

\* C26: inside a step, a list item that is neither a step header nor a labeled
\* line is appended to the field the last labeled line opened, whichever of the
\* four it is, and a step header leaves no field open.
C26_BulletAppendsToOpenField ==
    [][(/\ parse.pc = "loop" /\ parse'.pc = "loop"
        /\ parse'.i = parse.i + 1
        /\ parse.st.current_step # NoStep) =>
          LET line    == parse.lines[parse.i]
              item    == strip(From(line, SkipWhile(line, 1, {"-", "bullet"})))
              cur     == parse.st.current_step
              new     == parse'.st.current_step
              labeled == \E w \in {"miaoshu", "shuoming", "suoxushebei", "zhuyishixiang",
                                    "yujishijian"} : FieldMatch(line, {w}) # 0
              section == parse.st.current_section
          IN  /\ StepMatch(line) # 0 => parse'.st.current_section = "None"
              /\ (/\ StepMatch(line) = 0 /\ ~labeled
                  /\ Head(line) \in {"-", "bullet"} /\ item # <<>>) =>
                    /\ section = "equipment" => new.equipment = Append(cur.equipment, item)
                    /\ section = "warnings" => new.warnings = Append(cur.warnings, item)
                    /\ section = "description" =>
                          /\ Len(new.description) >= Len(cur.description) + Len(item)
                          /\ From(new.description, Len(new.description) - Len(item) + 1) = item
                    /\ section = "time" => new # cur]_vars

\* C27: a text without any step header is parsed into the generic plan of two
\* steps, "assess the scene" numbered 1 and "plan and execute the rescue" numbered
\* 2; the step list returned is never empty.
C27_NoHeaderYieldsGenericSteps ==
    parse.pc = "returned" =>
        /\ parse.plan.steps # <<>>
        /\ Headers = 0 =>
              /\ Len(parse.plan.steps) = 2
              /\ \A i \in 1..2 : parse.plan.steps[i].step_number = i
              /\ parse.plan.steps[1].description = <<"assess_the_scene">>
              /\ parse.plan.steps[2].description = <<"plan_and_execute">>
              /\ parse.plan.steps = DefaultSteps

\* C27 witness: a text with lines but no step header was parsed; the plan returned
\* carries the title found in the text and the two generic steps
C27_Witness ==
    /\ parse.pc = "returned"
    /\ Len(parse.lines) >= 1
    /\ Headers = 0
    /\ parse.plan.title # DefaultPlan.title
    /\ parse.plan.steps = DefaultSteps

\* ------------------------------------------------------------------------
\* Further properties of the circuit breaker
\* ------------------------------------------------------------------------

\* C28: the step in which an invocation on S gives up after its last attempt raises
\* S's failure_count by exactly one; no other step raises it (not a failed attempt
\* that is retried, not an invocation that returns a response); and the breaker
\* of S opens only when circuit_breaker_threshold invocations in a row have failed.
C28_OneFailurePerInvocation ==
    [][\A s \in Services :
          LET before == circuit_breakers[s].failure_count
              after  == circuit_breakers'[s].failure_count
          IN  /\ \A c \in Callers : FailedReturn(c, s) => after = before + 1
              /\ \A c \in Callers : SuccessfulReturn(c, s) => after <= before
              /\ after > before => \E c \in Callers : FailedReturn(c, s)
              /\ (circuit_breakers[s].state # "open" /\ circuit_breakers'[s].state = "open")
                    => consec_failures'[s] >= circuit_breaker_threshold]_vars

\* C29: a call to S that is rejected because the breaker is open leaves the
\* record of S as it was (state, failure_count, last_failure_time), so the end of
\* the open window does not move.
C29_RejectionLeavesBreakerAlone ==
    [][\A c \in Callers, s \in Services :
          /\ (CallService(c, s) /\ _is_circuit_breaker_open(circuit_breakers, s).ret)
                => circuit_breakers'[s] = circuit_breakers[s]
          /\ (last_outcome' # last_outcome /\ last_outcome' = Finished(c, s, CircuitOpen))
                => /\ circuit_breakers[s].state = "open"
                   /\ circuit_breakers'[s] = circuit_breakers[s]]_vars

\* C29 witness: a call was rejected part-way through the open window
C29_Witness ==
    \E s \in Services :
        /\ last_outcome.svc = s /\ last_outcome.result = CircuitOpen
        /\ circuit_breakers[s].state = "open"
        /\ circuit_breakers[s].since_failure \in 1..circuit_breaker_timeout

\* C30: if calls to S keep being made and, from some point on, every request sent
\* to S is answered with a good response, then an open breaker of S leads to the
\* breaker being closed with failure_count 0 and a call to S having returned its
\* response. (The clock advancing and requests completing are the fairness
\* conditions of SoloLiveSpec.)
C30_BreakerRecovers ==
    (/\ WF_vars(\E s \in Services :
                   CallService(1, s) /\ UNCHANGED <<coordVars, keyVars, hostVars, obsVars>>)
     /\ <>[][\A o \in Outcomes \ {"ok"} : ~Respond(1, o)]_vars)
        => \A s \in Services :
              (circuit_breakers[s].state = "open")
                  ~> (/\ circuit_breakers[s].state = "closed"
                      /\ circuit_breakers[s].failure_count = 0
                      /\ last_outcome = Finished(1, s, Response))

\* C30 witness: the cool-down of an open breaker has elapsed and the call that
\* found it so is in flight, the breaker half-open
C30_Witness ==
    \E s \in Services :
        /\ circuit_breakers[s].state = "half-open"
        /\ circuit_breakers[s].since_failure > circuit_breaker_timeout
        /\ probe[s] = 1
        /\ call[1].pc = "awaiting" /\ call[1].svc = s

====
